---- MODULE Spec2Model ----
(***************************************************************************)
(* Huffman codec for 16-bit PCM samples: the encoder (src/encoder.cpp) and *)
(* the decoder (src/decoder.cpp), run one after the other on one file.     *)
(*                                                                         *)
(* Tree nodes live in an arena (a sequence of records); a pointer is an    *)
(* index into it and Null is nullptr.  A bit string ('0'/'1' characters)   *)
(* is a sequence over {0,1}.  std::priority_queue only promises that top() *)
(* is an element no other element beats under Compare, so among nodes of   *)
(* equal frequency the model takes any of them.  The WAV header is carried *)
(* through verbatim and is not read by any step modelled here.             *)
(***************************************************************************)
EXTENDS Integers, Sequences, FiniteSets, TLC

\* Longest sample sequence drawn for the input.
MaxLen == 5

\* Sample values drawn for the input: both int16 extremes, the value the
\* encoder also uses to mark internal nodes, and an ordinary value.
Alphabet == {-32768, -1, 0, 32767}

\* The worked example of the specification.
ExampleSamples == <<0, 0, 0, 1, 1, -5>>

Null == 0
Wild == -2
InternalMark == -1

BoundedSeqs(S, n) == UNION {[1..m -> S] : m \in 0..n}

Inputs == BoundedSeqs(Alphabet, MaxLen) \cup {ExampleSamples}

Range(s) == {s[i] : i \in DOMAIN s}

EmptyMap == [x \in {} |-> 0]

MapPut(m, k, v) == [x \in (DOMAIN m) \cup {k} |-> IF x = k THEN v ELSE m[x]]

Min(S) == CHOOSE x \in S : \A y \in S : x <= y

\* The keys of a std::map in iteration order (ascending).
RECURSIVE KeysInOrder(_)
KeysInOrder(S) ==
    IF S = {} THEN <<>> ELSE <<Min(S)>> \o KeysInOrder(S \ {Min(S)})

Pow2(n) == 2 ^ n

VARIABLES
    pc,              \* position in encoder main, then decoder main
    audioData,       \* encoder: the samples read from the WAV file
    frequencies,     \* encoder: std::map<int16_t,int>
    nodes,           \* encoder: arena of HuffmanNode
    minHeap,         \* encoder: the priority queue, as a set of pointers
    huffmanTree,     \* encoder: the root returned by buildHuffmanTree
    huffmanCodes,    \* encoder: std::map<int16_t,std::string>
    encodedData,     \* encoder: the '0'/'1' string
    file,            \* the compressed file on disk
    corrupt,         \* the file was altered between the two runs
    dCodes,          \* decoder: huffmanCodes
    encodedDataSize, \* decoder: declared bit count
    ri,              \* decoder: loop index i of readEncodedData
    dEncoded,        \* decoder: encodedData
    dnodes,          \* decoder: arena of HuffmanNode
    currentNode,     \* decoder: the walk position of decodeAudioData
    di,              \* decoder: bits consumed by decodeAudioData
    decoded,         \* decoder: audioData being rebuilt
    wav              \* the WAV samples written by saveWavFile

vars == <<pc, audioData, frequencies, nodes, minHeap, huffmanTree, huffmanCodes,
          encodedData, file, corrupt, dCodes, encodedDataSize, ri, dEncoded,
          dnodes, currentNode, di, decoded, wav>>

encVars == <<frequencies, nodes, minHeap, huffmanTree, huffmanCodes, encodedData>>
decVars == <<dCodes, encodedDataSize, ri, dEncoded, dnodes, currentNode, di, decoded, wav>>

NoFile == [codes |-> <<>>, encodedDataSize |-> 0, bytes |-> <<>>]

Init ==
    /\ audioData \in Inputs
    /\ pc = "calculateFrequencies"
    /\ frequencies = EmptyMap
    /\ nodes = <<>>
    /\ minHeap = {}
    /\ huffmanTree = Null
    /\ huffmanCodes = EmptyMap
    /\ encodedData = <<>>
    /\ file = NoFile
    /\ corrupt = FALSE
    /\ dCodes = EmptyMap
    /\ encodedDataSize = 0
    /\ ri = 0
    /\ dEncoded = <<>>
    /\ dnodes = <<>>
    /\ currentNode = Null
    /\ di = 0
    /\ decoded = <<>>
    /\ wav = <<>>

(***************************************************************************)
(* Encoder                                                                 *)
(***************************************************************************)

Count(data, s) == Cardinality({i \in DOMAIN data : data[i] = s})

calculateFrequencies(data) == [s \in Range(data) |-> Count(data, s)]

CalculateFrequencies ==
    /\ pc = "calculateFrequencies"
    /\ frequencies' = calculateFrequencies(audioData)
    /\ pc' = "buildPush"
    /\ UNCHANGED <<audioData, nodes, minHeap, huffmanTree, huffmanCodes,
                   encodedData, file, corrupt>>
    /\ UNCHANGED decVars

HuffmanNode(sample, frequency) ==
    [sample |-> sample, frequency |-> frequency, left |-> Null, right |-> Null]

Leaves(freq) ==
    LET keys == KeysInOrder(DOMAIN freq)
    IN  [i \in 1..Len(keys) |-> HuffmanNode(keys[i], freq[keys[i]])]

BuildPush ==
    /\ pc = "buildPush"
    /\ nodes' = Leaves(frequencies)
    /\ minHeap' = 1..Len(nodes')
    /\ pc' = "buildMerge"
    /\ UNCHANGED <<audioData, frequencies, huffmanTree, huffmanCodes,
                   encodedData, file, corrupt>>
    /\ UNCHANGED decVars

\* Compare(l, r): l is ordered after r, so top() is a node no other beats.
Compare(l, r) == nodes[l].frequency > nodes[r].frequency

Top(heap) == {n \in heap : \A m \in heap : ~Compare(n, m)}

\* Mutant of Combined: the new node takes the left child's frequency only.
CombinedLeftOnly(left, right) ==
    [sample |-> InternalMark,
     frequency |-> nodes[left].frequency,
     left |-> left, right |-> right]

Combined(left, right) ==
    [sample |-> InternalMark,
     frequency |-> nodes[left].frequency + nodes[right].frequency,
     left |-> left, right |-> right]

BuildMerge ==
    /\ pc = "buildMerge"
    /\ Cardinality(minHeap) > 1
    /\ \E left \in Top(minHeap) :
         \E right \in Top(minHeap \ {left}) :
            /\ nodes' = Append(nodes, Combined(left, right))
            /\ minHeap' = (minHeap \ {left, right}) \cup {Len(nodes) + 1}
    /\ UNCHANGED <<pc, audioData, frequencies, huffmanTree, huffmanCodes,
                   encodedData, file, corrupt>>
    /\ UNCHANGED decVars

\* return minHeap.top(): on an empty queue the call is undefined; the build
\* may fault there, or hand back a null or a wild pointer.
BuildReturn ==
    /\ pc = "buildMerge"
    /\ Cardinality(minHeap) <= 1
    /\ \/ /\ minHeap # {}
          /\ huffmanTree' \in Top(minHeap)
          /\ pc' = "generateCodes"
       \/ /\ minHeap = {}
          /\ \/ huffmanTree' = Null /\ pc' = "generateCodes"
             \/ huffmanTree' = Wild /\ pc' = "generateCodes"
             \/ huffmanTree' = Null /\ pc' = "encoderFault"
    /\ UNCHANGED <<audioData, frequencies, nodes, minHeap, huffmanCodes,
                   encodedData, file, corrupt>>
    /\ UNCHANGED decVars

\* Mutant of generateCodes: the right branch appends '0' as the left one does.
RECURSIVE generateCodesSameBit(_, _, _)
generateCodesSameBit(root, str, codes) ==
    IF root = Null THEN codes
    ELSE LET here == IF nodes[root].sample # InternalMark
                     THEN MapPut(codes, nodes[root].sample, str)
                     ELSE codes
             l == generateCodesSameBit(nodes[root].left, Append(str, 0), here)
         IN  generateCodesSameBit(nodes[root].right, Append(str, 0), l)

RECURSIVE generateCodes(_, _, _)
generateCodes(root, str, codes) ==
    IF root = Null THEN codes
    ELSE LET here == IF nodes[root].sample # InternalMark
                     THEN MapPut(codes, nodes[root].sample, str)
                     ELSE codes
             l == generateCodes(nodes[root].left, Append(str, 0), here)
         IN  generateCodes(nodes[root].right, Append(str, 1), l)

GenerateCodes ==
    /\ pc = "generateCodes"
    /\ \/ /\ huffmanTree # Wild
          /\ huffmanCodes' = generateCodes(huffmanTree, <<>>, EmptyMap)
          /\ pc' = "encodeAudioData"
       \/ /\ huffmanTree = Wild
          /\ huffmanCodes' = huffmanCodes
          /\ pc' = "encoderFault"
    /\ UNCHANGED <<audioData, frequencies, nodes, minHeap, huffmanTree,
                   encodedData, file, corrupt>>
    /\ UNCHANGED decVars

RECURSIVE encodeAudioData(_, _)
encodeAudioData(data, codes) ==
    IF data = <<>> THEN <<>>
    ELSE codes[Head(data)] \o encodeAudioData(Tail(data), codes)

\* huffmanCodes.at(sample) throws std::out_of_range for a missing key; main
\* does not catch it and the process is terminated.
EncodeAudioData ==
    /\ pc = "encodeAudioData"
    /\ IF Range(audioData) \subseteq DOMAIN huffmanCodes
       THEN /\ encodedData' = encodeAudioData(audioData, huffmanCodes)
            /\ pc' = "saveEncodedFile"
       ELSE /\ encodedData' = encodedData
            /\ pc' = "encoderTerminate"
    /\ UNCHANGED <<audioData, frequencies, nodes, minHeap, huffmanTree,
                   huffmanCodes, file, corrupt>>
    /\ UNCHANGED decVars

\* The two bytes written for an int16_t, low byte first.
SampleBytes(s) == <<(s % 65536) % 256, (s % 65536) \div 256>>

Bit(byte, j) == (byte \div Pow2(j)) % 2

\* Mutant of SetBit: bit j is counted from the high end of the byte.
SetBitFromHighEnd(byte, j, v) ==
    byte - Bit(byte, 7 - j) * Pow2(7 - j) + v * Pow2(7 - j)

SetBit(byte, j, v) == byte - Bit(byte, j) * Pow2(j) + v * Pow2(j)

\* The loop of saveEncodedFile over encodedData[i], i = 0 .. size-1.
RECURSIVE PackFrom(_, _, _)
PackFrom(bits, i, byte) ==
    IF i >= Len(bits) THEN <<>>
    ELSE LET b == SetBit(byte, i % 8, bits[i + 1])
         IN  IF i % 8 = 7 \/ i = Len(bits) - 1
             THEN <<b>> \o PackFrom(bits, i + 1, 0)
             ELSE PackFrom(bits, i + 1, b)

PackBits(bits) == PackFrom(bits, 0, 0)

CodeRecords(codes) ==
    LET keys == KeysInOrder(DOMAIN codes)
    IN  [i \in 1..Len(keys) |->
            [sample |-> SampleBytes(keys[i]),
             codeLength |-> Len(codes[keys[i]]),
             code |-> codes[keys[i]]]]

SaveEncodedFile ==
    /\ pc = "saveEncodedFile"
    /\ file' = [codes |-> CodeRecords(huffmanCodes),
                encodedDataSize |-> Len(encodedData),
                bytes |-> PackBits(encodedData)]
    /\ pc' = "encoded"
    /\ UNCHANGED <<audioData, corrupt>>
    /\ UNCHANGED encVars
    /\ UNCHANGED decVars

(***************************************************************************)
(* The file between the two runs: it may reach the decoder truncated or    *)
(* altered (one bit more or fewer declared, or the last code entry lost).  *)
(***************************************************************************)

Altered(f) ==
    {[f EXCEPT !.encodedDataSize = n] :
        n \in {f.encodedDataSize - 1, f.encodedDataSize + 1}
              \cap (0..(8 * Len(f.bytes)))}
    \cup
    {[f EXCEPT !.codes = SubSeq(f.codes, 1, Len(f.codes) - 1)] :
        x \in IF Len(f.codes) > 0 THEN {1} ELSE {}}

AlterFile ==
    /\ pc = "encoded"
    /\ ~corrupt
    /\ file' \in Altered(file)
    /\ corrupt' = TRUE
    /\ UNCHANGED <<pc, audioData>>
    /\ UNCHANGED encVars
    /\ UNCHANGED decVars

(***************************************************************************)
(* Decoder                                                                 *)
(***************************************************************************)

\* The int16_t read back from its two bytes.
SampleOf(b) ==
    LET u == b[1] + 256 * b[2]
    IN  IF u >= 32768 THEN u - 65536 ELSE u

RECURSIVE readHuffmanCodes(_, _)
readHuffmanCodes(recs, codes) ==
    IF recs = <<>> THEN codes
    ELSE readHuffmanCodes(Tail(recs),
            MapPut(codes, SampleOf(Head(recs).sample),
                   SubSeq(Head(recs).code, 1, Head(recs).codeLength)))

\* readHuffmanCodes, then the read of encodedDataSize in main.
ReadHuffmanCodes ==
    /\ pc = "encoded"
    /\ dCodes' = readHuffmanCodes(file.codes, EmptyMap)
    /\ encodedDataSize' = file.encodedDataSize
    /\ ri' = 0
    /\ dEncoded' = <<>>
    /\ pc' = "readEncodedData"
    /\ UNCHANGED <<audioData, file, corrupt, dnodes, currentNode, di, decoded, wav>>
    /\ UNCHANGED encVars

\* The inner loop of readEncodedData on byte c with `have` bits read so far.
RECURSIVE ByteBitsFrom(_, _, _, _)
ByteBitsFrom(c, j, have, size) ==
    IF j < 8 /\ have < size
    THEN <<Bit(c, j)>> \o ByteBitsFrom(c, j + 1, have + 1, size)
    ELSE <<>>

\* Mutant of ByteBits: all eight bits of the byte are taken, whatever the
\* declared bit count.
ByteBitsWholeByte(c, have, size) == [j \in 1..8 |-> Bit(c, j - 1)]

ByteBits(c, have, size) == ByteBitsFrom(c, 0, have, size)

\* One iteration of the outer loop: a read past the end of the file fails and
\* leaves c uninitialised.
ReadEncodedDataStep ==
    /\ pc = "readEncodedData"
    /\ ri < encodedDataSize
    /\ \E c \in (IF ri < Len(file.bytes) THEN {file.bytes[ri + 1]} ELSE 0..255) :
         dEncoded' = dEncoded \o ByteBits(c, Len(dEncoded), encodedDataSize)
    /\ ri' = ri + 1
    /\ UNCHANGED <<pc, audioData, file, corrupt, dCodes, encodedDataSize,
                   dnodes, currentNode, di, decoded, wav>>
    /\ UNCHANGED encVars

ReadEncodedDataReturn ==
    /\ pc = "readEncodedData"
    /\ ri >= encodedDataSize
    /\ pc' = "buildHuffmanTree"
    /\ UNCHANGED <<audioData, file, corrupt>>
    /\ UNCHANGED encVars
    /\ UNCHANGED decVars

DNode(sample) == [sample |-> sample, left |-> Null, right |-> Null]

DRoot == 1

\* The walk of one code from currentNode, allocating missing children.
RECURSIVE InsertCode(_, _, _, _)
InsertCode(tree, cur, code, sample) ==
    IF code = <<>> THEN [tree EXCEPT ![cur].sample = sample]
    ELSE IF Head(code) = 0
         THEN IF tree[cur].left = Null
              THEN InsertCode(Append([tree EXCEPT ![cur].left = Len(tree) + 1],
                                     DNode(InternalMark)),
                              Len(tree) + 1, Tail(code), sample)
              ELSE InsertCode(tree, tree[cur].left, Tail(code), sample)
         ELSE IF tree[cur].right = Null
              THEN InsertCode(Append([tree EXCEPT ![cur].right = Len(tree) + 1],
                                     DNode(InternalMark)),
                              Len(tree) + 1, Tail(code), sample)
              ELSE InsertCode(tree, tree[cur].right, Tail(code), sample)

RECURSIVE InsertAll(_, _, _)
InsertAll(tree, keys, codes) ==
    IF keys = <<>> THEN tree
    ELSE InsertAll(InsertCode(tree, DRoot, codes[Head(keys)], Head(keys)),
                   Tail(keys), codes)

buildHuffmanTree(codes) ==
    InsertAll(<<DNode(InternalMark)>>, KeysInOrder(DOMAIN codes), codes)

BuildHuffmanTree ==
    /\ pc = "buildHuffmanTree"
    /\ dnodes' = buildHuffmanTree(dCodes)
    /\ currentNode' = DRoot
    /\ di' = 0
    /\ decoded' = <<>>
    /\ pc' = "decodeAudioData"
    /\ UNCHANGED <<audioData, file, corrupt, dCodes, encodedDataSize, ri, dEncoded, wav>>
    /\ UNCHANGED encVars

Child(n, bit) == IF bit = 0 THEN dnodes[n].left ELSE dnodes[n].right

IsLeaf(n) == dnodes[n].left = Null /\ dnodes[n].right = Null

\* One iteration of the loop of decodeAudioData.  Stepping to a child that
\* does not exist makes the test on it a null dereference: the run faults or
\* does anything else.
DecodeStep ==
    /\ pc = "decodeAudioData"
    /\ di < Len(dEncoded)
    /\ LET next == Child(currentNode, dEncoded[di + 1])
       IN  IF next = Null
           THEN /\ pc' \in {"decoderFault", "decoderUndefined"}
                /\ currentNode' = Null
                /\ decoded' = decoded
           ELSE /\ pc' = pc
                /\ IF IsLeaf(next)
                   THEN /\ decoded' = Append(decoded, dnodes[next].sample)
                        /\ currentNode' = DRoot
                   ELSE /\ decoded' = decoded
                        /\ currentNode' = next
    /\ di' = di + 1
    /\ UNCHANGED <<audioData, file, corrupt, dCodes, encodedDataSize, ri, dEncoded,
                   dnodes, wav>>
    /\ UNCHANGED encVars

\* decodeAudioData returns, saveWavFile writes the samples, main returns 0.
SaveWavFile ==
    /\ pc = "decodeAudioData"
    /\ di >= Len(dEncoded)
    /\ wav' = decoded
    /\ pc' = "done"
    /\ UNCHANGED <<audioData, file, corrupt, dCodes, encodedDataSize, ri, dEncoded,
                   dnodes, currentNode, di, decoded>>
    /\ UNCHANGED encVars

Next ==
    \/ CalculateFrequencies
    \/ BuildPush
    \/ BuildMerge
    \/ BuildReturn
    \/ GenerateCodes
    \/ EncodeAudioData
    \/ SaveEncodedFile
    \/ AlterFile
    \/ ReadHuffmanCodes
    \/ ReadEncodedDataStep
    \/ ReadEncodedDataReturn
    \/ BuildHuffmanTree
    \/ DecodeStep
    \/ SaveWavFile

Spec == Init /\ [][Next]_vars

(***************************************************************************)
(* Properties                                                              *)
(***************************************************************************)

EncoderBuilding == pc \in {"calculateFrequencies", "buildPush", "buildMerge"}

\* buildHuffmanTree has returned.
AfterBuild == ~EncoderBuilding /\ pc # "encoderFault"

\* generateCodes has returned.
AfterGenerate == AfterBuild /\ pc # "generateCodes"

\* encodeAudioData has returned.
AfterEncode == AfterGenerate /\ pc \notin {"encodeAudioData", "encoderTerminate"}

\* saveEncodedFile has returned.
AfterSave == AfterEncode /\ pc # "saveEncodedFile"

\* readEncodedData has returned.
AfterRead == AfterSave /\ pc \notin {"encoded", "readEncodedData"}

Stopped == pc \in {"done", "encoderFault", "encoderTerminate",
                   "decoderFault", "decoderUndefined"}

IsPrefix(a, b) == Len(a) <= Len(b) /\ SubSeq(b, 1, Len(a)) = a

RECURSIVE SumMap(_)
SumMap(m) ==
    IF DOMAIN m = {} THEN 0
    ELSE LET k == Min(DOMAIN m)
         IN  m[k] + SumMap([x \in (DOMAIN m) \ {k} |-> m[x]])

Distinct == Cardinality(Range(audioData))

\* C1: every non-empty sample sequence, run through the encoder and then
\* the decoder on the encoder's own file, comes back unchanged: the pipeline
\* ends with the decoder's success and the written samples are the input.
C1_RoundTrip ==
    (audioData # <<>> /\ ~corrupt /\ Stopped) => (pc = "done" /\ wav = audioData)

\* C2: with exactly one distinct sample value the returned tree has an
\* internal root over the single leaf, the value's code has length >= 1, the
\* encoded bit count is at least the number of samples, and decoding gives
\* the input back.
C2_Singleton ==
    Distinct = 1 =>
        /\ AfterBuild =>
              /\ huffmanTree \in 1..Len(nodes)
              /\ nodes[huffmanTree].left # Null
        /\ AfterGenerate =>
              \A s \in Range(audioData) :
                  s \in DOMAIN huffmanCodes /\ Len(huffmanCodes[s]) >= 1
        /\ AfterEncode => Len(encodedData) >= Len(audioData)
        /\ (Stopped /\ ~corrupt) => (pc = "done" /\ wav = audioData)

\* C3: on an empty sample sequence the encoder runs to completion: the tree
\* returned is the empty one, the code table is empty, zero bits are
\* encoded, and decoding that file gives the empty sequence.
C3_EmptyInput ==
    audioData = <<>> =>
        /\ pc # "encoderFault"
        /\ ~EncoderBuilding => huffmanTree = Null
        /\ AfterGenerate => huffmanCodes = EmptyMap
        /\ AfterEncode => encodedData = <<>>
        /\ AfterSave => file.encodedDataSize = 0 /\ file.codes = <<>>
        /\ pc = "done" => wav = <<>>

\* C4: the keys of the generated code table are exactly the distinct sample
\* values counted, so the lookup of an input sample in encodeAudioData
\* never fails.
C4_CodeTableComplete ==
    /\ AfterGenerate => DOMAIN huffmanCodes = DOMAIN frequencies
    /\ pc # "encoderTerminate"

\* C5: in the generated code table no code is a prefix of, or equal to, the
\* code of a different sample.
C5_PrefixFree ==
    AfterGenerate =>
        \A a, b \in DOMAIN huffmanCodes :
            a # b => ~IsPrefix(huffmanCodes[a], huffmanCodes[b])

C5_Witness ==
    /\ AfterGenerate
    /\ Cardinality(DOMAIN huffmanCodes) >= 3
    /\ \E a, b \in DOMAIN huffmanCodes : Len(huffmanCodes[a]) < Len(huffmanCodes[b])

\* C6: reading a file the encoder packed with N bits, the decoder never
\* holds a bit at a position >= N: what it has read is always a prefix of
\* the N logical bits, it is all N of them once the read returns, and when
\* the tree walk has consumed them all it is back at the root.
C6_BitCountPrecise ==
    (AfterSave /\ ~corrupt) =>
        /\ IsPrefix(dEncoded, encodedData)
        /\ AfterRead => dEncoded = encodedData
        /\ pc \notin {"decoderFault", "decoderUndefined"}
        /\ (pc = "decodeAudioData" /\ di = Len(encodedData)) => currentNode = DRoot
        /\ pc = "done" => (di = Len(encodedData) /\ currentNode = DRoot)

C6_Witness ==
    /\ pc = "done"
    /\ ~corrupt
    /\ Len(encodedData) % 8 # 0
    /\ Len(encodedData) >= 3
    /\ di = Len(encodedData)

\* C7: the decoder never reports success with the tree walk off the root
\* after the declared bits, and never faults on a bit that leads to a child
\* the rebuilt tree does not have: such a file is refused as a format error.
C7_CorruptRejected ==
    /\ pc = "done" => currentNode = DRoot
    /\ pc \notin {"decoderFault", "decoderUndefined"}

\* Every assignment of code lengths 1..k to the keys that satisfies Kraft's
\* inequality, i.e. the lengths of every prefix code with non-empty codes of
\* at most k bits; an optimal prefix code of k >= 2 symbols needs at most
\* k-1.
ValidLengths(keys) ==
    LET k == Cardinality(keys)
    IN  {l \in [keys -> 1..k] :
            SumMap([s \in keys |-> Pow2(k - l[s])]) <= Pow2(k)}

Cost(freq, l) == SumMap([s \in DOMAIN freq |-> freq[s] * l[s]])

CodeLengths == [s \in DOMAIN huffmanCodes |-> Len(huffmanCodes[s])]

LeastCost ==
    \A l \in ValidLengths(DOMAIN frequencies) :
        Cost(frequencies, CodeLengths) <= Cost(frequencies, l)

ExampleLengths ==
    audioData = ExampleSamples =>
        /\ CodeLengths = [s \in {-5, 0, 1} |-> IF s = 0 THEN 1 ELSE 2]
        /\ AfterEncode => Len(encodedData) = 9

\* C8: for every frequency table the generated codes give every counted
\* sample a code, and the total of frequency times code length is no more
\* than under any valid prefix code; the example's lengths are 1, 2, 2 and
\* its encoded length 9 bits.
C8_Optimal ==
    AfterGenerate =>
        /\ DOMAIN huffmanCodes = DOMAIN frequencies
        /\ LeastCost
        /\ ExampleLengths

\* What holds of C8: whenever every counted sample has a code, the total is
\* least and the example's lengths are as stated.
OptimalWhenComplete ==
    (AfterGenerate /\ DOMAIN huffmanCodes = DOMAIN frequencies) =>
        LeastCost /\ ExampleLengths

BytesFor(n) == (n + 7) \div 8

\* C9: saveEncodedFile writes ceil(N/8) bytes, bit (p mod 8) of byte
\* floor(p/8) is logical bit p for every p < N, and readEncodedData with the
\* same N gives back the same N bits.
C9_PackingLayout ==
    (AfterSave /\ ~corrupt) =>
        /\ file.encodedDataSize = Len(encodedData)
        /\ Len(file.bytes) = BytesFor(Len(encodedData))
        /\ \A p \in 0..(Len(encodedData) - 1) :
              Bit(file.bytes[(p \div 8) + 1], p % 8) = encodedData[p + 1]
        /\ AfterRead => dEncoded = encodedData

C9_Witness ==
    /\ AfterRead
    /\ ~corrupt
    /\ Len(encodedData) > 8
    /\ Len(file.bytes) = 2
    /\ \E p, q \in 1..Len(encodedData) : encodedData[p] # encodedData[q]

Leaf(n) == nodes[n].left = Null /\ nodes[n].right = Null

Internal(n) ==
    /\ nodes[n].left \in 1..Len(nodes)
    /\ nodes[n].right \in 1..Len(nodes)
    /\ nodes[n].left # nodes[n].right
    /\ nodes[n].frequency =
          nodes[nodes[n].left].frequency + nodes[nodes[n].right].frequency

Parents(n) == {m \in 1..Len(nodes) : nodes[m].left = n \/ nodes[m].right = n}

\* C10: with k >= 2 distinct samples the merge loop ends after k-1 merges
\* with one root; every node is a leaf without children or an internal node
\* with two children whose frequencies add up to its own; each distinct
\* sample is on exactly one leaf; the root's frequency is the sample count.
C10_TreeShape ==
    (AfterBuild /\ Distinct >= 2) =>
        /\ Len(nodes) = 2 * Distinct - 1
        /\ Cardinality({n \in 1..Len(nodes) : ~Leaf(n)}) = Distinct - 1
        /\ minHeap = {huffmanTree}
        /\ huffmanTree \in 1..Len(nodes)
        /\ \A n \in 1..Len(nodes) : Leaf(n) \/ Internal(n)
        /\ \A s \in DOMAIN frequencies :
              Cardinality({n \in 1..Len(nodes) :
                              Leaf(n) /\ nodes[n].sample = s}) = 1
        /\ \A n \in 1..Len(nodes) : Leaf(n) => nodes[n].sample \in DOMAIN frequencies
        /\ \A n \in 1..Len(nodes) :
              Cardinality(Parents(n)) = (IF n = huffmanTree THEN 0 ELSE 1)
        /\ nodes[huffmanTree].frequency = Len(audioData)

C10_Witness ==
    /\ AfterBuild
    /\ Distinct >= 3
    /\ InternalMark \in DOMAIN frequencies
    /\ \E n \in 1..Len(nodes) : ~Leaf(n) /\ ~Leaf(nodes[n].left)

====
